---- MODULE Spec2Model ----
(***************************************************************************)
(* A model of script.py: the batch translation of a Localizable.xcstrings  *)
(* document.  Text is a sequence of one-character strings, so that strip,  *)
(* splitlines, split and json.loads are computed character by character.   *)
(***************************************************************************)
EXTENDS Integers, Sequences, FiniteSets, TLC

(***************************************************************************)
(* Text helpers: the Python string methods the script calls.               *)
(***************************************************************************)

\* str.isdigit() on one character (ASCII digits)
Digits == {"0", "1", "2", "3", "4", "5", "6", "7", "8", "9"}

\* the characters str.strip() and str.split() treat as whitespace
PySpace == {" ", "\t", "\n", "\r", "\f"}

\* the characters json's WHITESPACE pattern skips
JsonSpace == {" ", "\t", "\n", "\r"}

\* the line boundaries of str.splitlines() ("\r\n" counts as one)
LineBreaks == {"\n", "\r", "\f"}

\* s[i..j], empty when j < i
Slice(s, i, j) == IF j < i THEN <<>> ELSE SubSeq(s, i, j)

RECURSIVE SkipChars(_, _, _)
\* the first index >= i of s whose character is not in set (Len(s)+1 if none)
SkipChars(s, i, set) ==
    IF i <= Len(s) /\ s[i] \in set THEN SkipChars(s, i + 1, set) ELSE i

RECURSIVE FindChars(_, _, _)
\* the first index >= i of s whose character is in set (Len(s)+1 if none)
FindChars(s, i, set) ==
    IF i <= Len(s) /\ s[i] \notin set THEN FindChars(s, i + 1, set) ELSE i

RECURSIVE RSkipChars(_, _, _)
\* the last index <= j of s whose character is not in set (0 if none)
RSkipChars(s, j, set) ==
    IF j >= 1 /\ s[j] \in set THEN RSkipChars(s, j - 1, set) ELSE j

\* str.strip()
Strip(s) == Slice(s, SkipChars(s, 1, PySpace), RSkipChars(s, Len(s), PySpace))

\* "value.strip()" used as a truth value: the text is not blank
NonBlank(s) == Strip(s) # <<>>

RECURSIVE SplitLinesFrom(_, _)
\* str.splitlines() of s[i..]: no empty last line after a final line break
SplitLinesFrom(s, i) ==
    IF i > Len(s) THEN <<>>
    ELSE LET e == FindChars(s, i, LineBreaks)
             n == IF e < Len(s) /\ s[e] = "\r" /\ s[e + 1] = "\n" THEN e + 2 ELSE e + 1
         IN  <<Slice(s, i, e - 1)>> \o SplitLinesFrom(s, n)

SplitLines(s) == SplitLinesFrom(s, 1)

\* str.split(maxsplit=1): the first whitespace-delimited word, then the rest
\* of the text from its first non-whitespace character to the end
SplitMax1(s) ==
    LET a == SkipChars(s, 1, PySpace)
        b == FindChars(s, a, PySpace)
        c == SkipChars(s, b, PySpace)
    IN  IF a > Len(s) THEN <<>>
        ELSE IF c > Len(s) THEN <<Slice(s, a, b - 1)>>
        ELSE <<Slice(s, a, b - 1), Slice(s, c, Len(s))>>

RECURSIVE DecimalOf(_)
\* str(n) for n >= 0
DecimalOf(n) ==
    LET d == <<"0", "1", "2", "3", "4", "5", "6", "7", "8", "9">>
    IN  IF n < 10 THEN <<d[n + 1]>> ELSE DecimalOf(n \div 10) \o <<d[(n % 10) + 1]>>

(***************************************************************************)
(* json.loads on text without backslash or brace: strings, numbers, the    *)
(* literals and arrays.  A parsed value is [t, v]: its Python type and, for *)
(* a string, its characters (for the rest, the text it was read from); an   *)
(* array also carries its elements when it is the outermost value.          *)
(***************************************************************************)

\* the literals py_make_scanner accepts, with the type each yields
JsonWords ==
    << [w |-> <<"n", "u", "l", "l">>, t |-> "none"],
       [w |-> <<"t", "r", "u", "e">>, t |-> "bool"],
       [w |-> <<"f", "a", "l", "s", "e">>, t |-> "bool"],
       [w |-> <<"N", "a", "N">>, t |-> "float"],
       [w |-> <<"I", "n", "f", "i", "n", "i", "t", "y">>, t |-> "float"],
       [w |-> <<"-", "I", "n", "f", "i", "n", "i", "t", "y">>, t |-> "float"] >>

\* word w stands in s at index i
WordAt(s, i, w) == i + Len(w) - 1 <= Len(s) /\ SubSeq(s, i, i + Len(w) - 1) = w

\* s[i] is a digit
DigitAt(s, i) == i <= Len(s) /\ s[i] \in Digits

\* NUMBER_RE of json.scanner at index i: [ok, next, float]; the longest match
\* of -?(0|[1-9]\d*)(\.\d+)?([eE][-+]?\d+)?
ScanNumber(s, i) ==
    LET i0 == IF i <= Len(s) /\ s[i] = "-" THEN i + 1 ELSE i
        ie == IF DigitAt(s, i0) /\ s[i0] = "0" THEN i0 + 1 ELSE SkipChars(s, i0, Digits)
        hasFrac == ie <= Len(s) /\ s[ie] = "." /\ DigitAt(s, ie + 1)
        fe == IF hasFrac THEN SkipChars(s, ie + 1, Digits) ELSE ie
        sg == IF fe + 1 <= Len(s) /\ s[fe + 1] \in {"+", "-"} THEN fe + 2 ELSE fe + 1
        hasExp == fe <= Len(s) /\ s[fe] \in {"e", "E"} /\ DigitAt(s, sg)
        ee == IF hasExp THEN SkipChars(s, sg, Digits) ELSE fe
    IN  [ok |-> DigitAt(s, i0), next |-> ee, float |-> hasFrac \/ hasExp]

\* the control characters a JSON string may not hold
JsonControl == {"\t", "\n", "\r", "\f"}

\* py_scanstring from the opening quote at i: [ok, next]; a control character
\* inside the string is an error (strict mode)
ScanString(s, i) ==
    LET e == FindChars(s, i + 1, {"\""} \cup JsonControl)
    IN  [ok |-> e <= Len(s) /\ s[e] = "\"", next |-> e + 1]

JsonFail == [ok |-> FALSE, t |-> "none", v |-> <<>>, elems |-> <<>>, next |-> 0]

JsonVal(t, s, i, next, elems) ==
    [ok |-> TRUE, t |-> t, v |-> IF t = "str" THEN Slice(s, i + 1, next - 2)
                                 ELSE Slice(s, i, next - 1),
     elems |-> elems, next |-> next]

RECURSIVE ScanOnce(_, _), ScanArray(_, _, _), ScanWords(_, _, _)

\* the literals, tried in turn
ScanWords(s, i, k) ==
    IF k > Len(JsonWords) THEN JsonFail
    ELSE IF WordAt(s, i, JsonWords[k].w)
         THEN JsonVal(JsonWords[k].t, s, i, i + Len(JsonWords[k].w), <<>>)
         ELSE ScanWords(s, i, k + 1)

\* JSONArray after "[": the elements read so far are acc, i is where the next
\* value starts (whitespace already skipped); [ok, elems, next]
ScanArray(s, i, acc) ==
    LET val == ScanOnce(s, i)
        j == SkipChars(s, val.next, JsonSpace)
        got == Append(acc, [t |-> val.t, v |-> val.v])
    IN  IF ~val.ok \/ j > Len(s) THEN JsonFail
        ELSE IF s[j] = "]" THEN [JsonFail EXCEPT !.ok = TRUE, !.elems = got, !.next = j + 1]
        ELSE IF s[j] = "," THEN ScanArray(s, SkipChars(s, j + 1, JsonSpace), got)
        ELSE JsonFail

\* scan_once: the value starting at index i of s
ScanOnce(s, i) ==
    IF i > Len(s) THEN JsonFail
    ELSE IF s[i] = "\"" THEN
        LET r == ScanString(s, i)
        IN  IF r.ok THEN JsonVal("str", s, i, r.next, <<>>) ELSE JsonFail
    ELSE IF s[i] = "[" THEN
        LET j == SkipChars(s, i + 1, JsonSpace)
            r == IF j <= Len(s) /\ s[j] = "]"
                 THEN [JsonFail EXCEPT !.ok = TRUE, !.next = j + 1]
                 ELSE ScanArray(s, j, <<>>)
        IN  IF r.ok THEN JsonVal("list", s, i, r.next, r.elems) ELSE JsonFail
    ELSE IF s[i] \in {"n", "t", "f"} THEN ScanWords(s, i, 1)
    ELSE LET n == ScanNumber(s, i)
         IN  IF n.ok THEN JsonVal(IF n.float THEN "float" ELSE "int", s, i, n.next, <<>>)
             ELSE ScanWords(s, i, 4)

\* json.loads(s): the value, or not ok (JSONDecodeError) when none can be read
\* or text other than whitespace follows it
JsonLoads(s) ==
    LET r == ScanOnce(s, SkipChars(s, 1, JsonSpace))
    IN  IF r.ok /\ SkipChars(s, r.next, JsonSpace) > Len(s) THEN r ELSE JsonFail

(***************************************************************************)
(* translate_batch, after the service has answered.                        *)
(***************************************************************************)

\* a Python str object
Str(s) == [t |-> "str", v |-> s]

\* one line of the fallback: the first word dropped when the line starts with
\* a digit followed by "." or ")" and more than one word is there
FallbackLine(line) ==
    IF line[1] \in Digits /\ Len(line) > 1 /\ (line[2] = "." \/ line[2] = ")")
    THEN LET parts == SplitMax1(line)
         IN  IF Len(parts) > 1 THEN parts[2] ELSE line
    ELSE line

RECURSIVE FallbackLines(_)
\* the line-by-line fallback over the lines of the answer
FallbackLines(lines) ==
    IF lines = <<>> THEN <<>>
    ELSE LET line == Strip(Head(lines))
         IN  (IF line # <<>> THEN <<Str(FallbackLine(line))>> ELSE <<>>)
             \o FallbackLines(Tail(lines))

\* the answer is taken as JSON: json.loads succeeds and yields a list
IsJsonList(raw) == JsonLoads(raw).ok /\ JsonLoads(raw).t = "list"

\* what the try block raises for the answer ("" when nothing): json.loads
\* fails, or the value is not a list (118-121)
ParseError(raw) ==
    IF ~JsonLoads(raw).ok THEN "JSONDecodeError"
    ELSE IF JsonLoads(raw).t # "list" THEN "ValueError"
    ELSE ""

\* an except clause that names the decoder's error only
Caught_narrow(exc) == exc = "JSONDecodeError"

\* "except Exception" catches whatever the try block raises (122)
Caught(exc) == TRUE

\* the translations translate_batch returns for the message content
ParseTranslations(content) ==
    LET raw_translation == Strip(content)
    IN  IF IsJsonList(raw_translation) THEN JsonLoads(raw_translation).elems
        ELSE FallbackLines(SplitLines(raw_translation))

(***************************************************************************)
(* The document: Python objects after json.load.  A dict whose keys are    *)
(* fixed is a record with a presence flag per optional key; the "strings"  *)
(* dict, whose key order the script iterates, is a sequence of items.      *)
(***************************************************************************)

\* the language codes of the model
Langs == {"en", "fr", "de"}

\* localizations[lang] is missing
NoUnit == [present |-> FALSE, hasStringUnit |-> FALSE, hasValue |-> FALSE,
           state |-> "", value |-> Str(<<>>)]

\* {"stringUnit": {"state": state, "value": value}}
Unit(state, value) ==
    [present |-> TRUE, hasStringUnit |-> TRUE, hasValue |-> TRUE,
     state |-> state, value |-> value]

\* a localization without "stringUnit"
BareUnit == [NoUnit EXCEPT !.present = TRUE]

\* the empty dict {} as an entry
EmptyEntry ==
    [dict |-> TRUE, shouldTranslate |-> "absent", hasLocalizations |-> FALSE,
     localizations |-> [l \in Langs |-> NoUnit], extractionState |-> ""]

\* an entry that is not a dict (a bare JSON string)
NonDictEntry == [EmptyEntry EXCEPT !.dict = FALSE]

\* the index of key in the items of a dict (0 when missing)
IndexOfKey(items, key) ==
    IF \E n \in 1..Len(items) : items[n].key = key
    THEN CHOOSE n \in 1..Len(items) : items[n].key = key
    ELSE 0

\* dict.get(key, {})
DictGet(items, key) ==
    IF IndexOfKey(items, key) = 0 THEN EmptyEntry ELSE items[IndexOfKey(items, key)].entry

\* an assignment that deletes the key first, so that it moves to the end
DictSet_moved(items, key, entry) ==
    Append(SelectSeq(items, LAMBDA it : it.key # key), [key |-> key, entry |-> entry])

\* dict[key] = entry: in place for a key it holds, at the end for a new one
DictSet(items, key, entry) ==
    IF IndexOfKey(items, key) = 0 THEN Append(items, [key |-> key, entry |-> entry])
    ELSE [items EXCEPT ![IndexOfKey(items, key)].entry = entry]

\* list(dict.keys())
KeysOf(items) == [n \in 1..Len(items) |-> items[n].key]

(***************************************************************************)
(* get_source_text and the selection of the keys to translate.             *)
(***************************************************************************)

\* a get_source_text that tests the value without strip()
get_source_text_unstripped(key, entry, src_lang) ==
    LET u == entry.localizations[src_lang]
    IN  IF entry.dict /\ entry.hasLocalizations /\ u.present
           /\ u.hasStringUnit /\ u.hasValue /\ u.value.v # <<>>
        THEN u.value.v
        ELSE key

\* get_source_text(key, entry, src_lang)
get_source_text(key, entry, src_lang) ==
    LET u == entry.localizations[src_lang]
    IN  IF entry.dict /\ entry.hasLocalizations /\ u.present
           /\ u.hasStringUnit /\ u.hasValue /\ NonBlank(u.value.v)
        THEN u.value.v
        ELSE key

\* locs[target_lang].get("stringUnit", {}).get("value", ""): the value read
ExistingValue(entry, target_lang) ==
    LET u == entry.localizations[target_lang]
    IN  IF u.hasStringUnit /\ u.hasValue THEN u.value ELSE Str(<<>>)

\* a selection that does not look at shouldTranslate
IsExcluded_ignored(entry) == FALSE

\* the entry is skipped for its shouldTranslate flag (line 209)
IsExcluded(entry) == entry.dict /\ entry.shouldTranslate = "false"

\* a selection that skips on the state tag instead of the value
IsTranslated_by_state(entry, target_lang) ==
    /\ entry.dict /\ entry.hasLocalizations
    /\ entry.localizations[target_lang].state = "translated"

\* a selection that never takes an entry for translated
IsTranslated_never(entry, target_lang) == FALSE

\* the entry is skipped because it holds a translation (lines 211-216)
IsTranslated(entry, target_lang) ==
    /\ entry.dict /\ entry.hasLocalizations
    /\ entry.localizations[target_lang].present
    /\ NonBlank(ExistingValue(entry, target_lang).v)

\* reading the entry raises: .strip() of a value that is not a str
StripRaises(entry, target_lang) ==
    /\ ~IsExcluded(entry)
    /\ entry.dict /\ entry.hasLocalizations
    /\ entry.localizations[target_lang].present
    /\ ExistingValue(entry, target_lang).t # "str"

\* the selection loop raises at some entry
SelectionRaises(items, target_lang) ==
    \E n \in 1..Len(items) : StripRaises(items[n].entry, target_lang)

\* the entry is taken into keys_to_translate
IsPending(entry, target_lang) ==
    ~IsExcluded(entry) /\ ~IsTranslated(entry, target_lang)

RECURSIVE SelectKeys(_, _)
\* keys_to_translate after the loop of lines 208-219
SelectKeys(items, target_lang) ==
    IF items = <<>> THEN <<>>
    ELSE (IF IsPending(Head(items).entry, target_lang) THEN <<Head(items).key>> ELSE <<>>)
         \o SelectKeys(Tail(items), target_lang)

\* source_texts after the loop of lines 208-219
SelectTexts(items, target_lang, src_lang) ==
    LET keys == SelectKeys(items, target_lang)
    IN  [k \in {keys[n] : n \in 1..Len(keys)} |->
            get_source_text(k, DictGet(items, k), src_lang)]

(***************************************************************************)
(* Batches, zip, update_localizations_for_language.                        *)
(***************************************************************************)

\* the step of range(0, total_keys, 10) and the width of the slice
BatchSize == 10

Min(a, b) == IF a < b THEN a ELSE b

\* a slice one key too wide
BatchKeys_wide(keys, i) == Slice(keys, i + 1, Min(i + BatchSize + 1, Len(keys)))

\* keys_to_translate[i:i+10]
BatchKeys(keys, i) == Slice(keys, i + 1, Min(i + BatchSize, Len(keys)))

\* a pairing that gives the keys left over the last translation
Zip_padded(keys, translated) ==
    [n \in 1..(IF translated = <<>> THEN 0 ELSE Len(keys)) |->
        [key |-> keys[n], text |-> translated[Min(n, Len(translated))]]]

\* zip(batch_keys, translated_batch) stored into translations_for_lang
Zip(keys, translated) ==
    [n \in 1..Min(Len(keys), Len(translated)) |-> [key |-> keys[n], text |-> translated[n]]]

\* an update that leaves a localization the entry already has
UpdateOne_keep(items, key, translated_text, target_lang) ==
    LET found == DictGet(items, key)
        entry == IF found.dict THEN found ELSE EmptyEntry
    IN  IF entry.localizations[target_lang].present THEN items
        ELSE DictSet(items, key,
                [entry EXCEPT !.hasLocalizations = TRUE,
                              !.localizations[target_lang] =
                                    Unit("translated", translated_text)])

\* an update that starts from a new localizations dict
UpdateOne_fresh(items, key, translated_text, target_lang) ==
    LET found == DictGet(items, key)
        entry == IF found.dict THEN found ELSE EmptyEntry
    IN  DictSet(items, key,
            [entry EXCEPT !.hasLocalizations = TRUE,
                          !.localizations =
                                [l \in Langs |-> IF l = target_lang
                                                 THEN Unit("translated", translated_text)
                                                 ELSE NoUnit]])

\* the body of the loop of update_localizations_for_language for one key
UpdateOne(items, key, translated_text, target_lang) ==
    LET found == DictGet(items, key)
        entry == IF found.dict THEN found ELSE EmptyEntry
    IN  DictSet(items, key,
            [entry EXCEPT !.hasLocalizations = TRUE,
                          !.localizations[target_lang] = Unit("translated", translated_text)])

RECURSIVE UpdateItems(_, _, _)
UpdateItems(items, translations, target_lang) ==
    IF translations = <<>> THEN items
    ELSE UpdateItems(UpdateOne(items, Head(translations).key, Head(translations).text,
                               target_lang),
                     Tail(translations), target_lang)

\* update_localizations_for_language(data, translations, target_lang)
update_localizations_for_language(doc, translations, target_lang) ==
    [doc EXCEPT !.strings = UpdateItems(doc.strings, translations, target_lang)]

\* a reading that makes up a missing total from the two other counts
UsageGet_derived(usage, field) ==
    IF field \in DOMAIN usage THEN usage[field]
    ELSE IF field = "total_tokens" /\ "prompt_tokens" \in DOMAIN usage
         THEN usage["prompt_tokens"] + 1
         ELSE 0

\* usage.get(field, 0)
UsageGet(usage, field) == IF field \in DOMAIN usage THEN usage[field] ELSE 0

(***************************************************************************)
(* The inputs of a run: the file, the command line, the service's answers. *)
(***************************************************************************)

\* the entries of the largest document
MaxKeys == 21

\* the answers that differ from what the prompt asks for, per run
MaxOdd == 1

\* the longest message content given to the parser on its own
MaxRaw == 4

\* the runs of main() on the same file, one after the other
MaxRuns == 2

KeyOf(n) == <<"k">> \o DecimalOf(n)
SourceText(n) == <<"s">> \o DecimalOf(n)

\* entry n as Xcode writes it: a source text, nothing translated yet
PlainEntry(n) ==
    [EmptyEntry EXCEPT !.hasLocalizations = TRUE,
                       !.localizations["en"] = Unit("translated", Str(SourceText(n))),
                       !.extractionState = "manual"]

TemplateNames ==
    {"excluded", "excluded_blank", "should_true", "translated", "blank",
     "bare_unit", "no_localizations", "blank_source", "non_dict"}

\* the entries a document of the format of lines 17-39 can hold
Template(name, n) ==
    CASE name = "excluded" ->
            [PlainEntry(n) EXCEPT !.shouldTranslate = "false"]
      [] name = "excluded_blank" ->
            [PlainEntry(n) EXCEPT !.shouldTranslate = "false",
                                  !.localizations["fr"] = Unit("new", Str(<<" ">>))]
      [] name = "should_true" ->
            [PlainEntry(n) EXCEPT !.shouldTranslate = "true"]
      [] name = "translated" ->
            [PlainEntry(n) EXCEPT !.localizations["fr"] = Unit("needs_review", Str(<<"x">>))]
      [] name = "blank" ->
            [PlainEntry(n) EXCEPT !.localizations["fr"] = Unit("new", Str(<<" ", "\t">>))]
      [] name = "bare_unit" ->
            [PlainEntry(n) EXCEPT !.localizations["fr"] = BareUnit]
      [] name = "no_localizations" ->
            [EmptyEntry EXCEPT !.extractionState = "manual"]
      [] name = "blank_source" ->
            [PlainEntry(n) EXCEPT !.localizations["en"] = Unit("translated", Str(<<" ">>))]
      [] name = "non_dict" -> NonDictEntry
      [] OTHER -> PlainEntry(n)

\* the numbers of entries of the documents: none, one, a full batch, a batch
\* and one entry, and the largest
Sizes == {0, 1, BatchSize, BatchSize + 1, MaxKeys}

\* where the one entry that is not plain stands (0: nowhere); the documents
\* of more than two batches are all plain
SpecialPos(n) == IF n > BatchSize + 1 THEN {0} ELSE {0} \cup ({1, n} \cap (1..n))

DocOf(n, pos, name, hasSL) ==
    [hasSourceLanguage |-> hasSL, sourceLanguage |-> "en",
     strings |-> [m \in 1..n |->
                    [key |-> KeyOf(m),
                     entry |-> IF m = pos THEN Template(name, m) ELSE PlainEntry(m)]]]

EmptyDoc == DocOf(0, 0, "plain", FALSE)

\* --languages (split and stripped), --source-language, and whether the
\* document names its sourceLanguage
Configs ==
    { [languages |-> <<>>, source_language |-> "", hasSL |-> TRUE],
      [languages |-> <<"fr">>, source_language |-> "", hasSL |-> TRUE],
      [languages |-> <<"fr">>, source_language |-> "", hasSL |-> FALSE],
      [languages |-> <<"en", "fr">>, source_language |-> "", hasSL |-> TRUE],
      [languages |-> <<"fr", "fr">>, source_language |-> "", hasSL |-> TRUE],
      [languages |-> <<"fr", "de">>, source_language |-> "", hasSL |-> TRUE],
      [languages |-> <<"fr", "de">>, source_language |-> "de", hasSL |-> TRUE] }

RECURSIVE Join(_, _)
\* sep.join(parts)
Join(parts, sep) ==
    IF parts = <<>> THEN <<>>
    ELSE IF Len(parts) = 1 THEN parts[1]
    ELSE parts[1] \o sep \o Join(Tail(parts), sep)

Quoted(s) == <<"\"">> \o s \o <<"\"">>

\* the text of a JSON array of the given items
ArrayText(parts) == <<"[">> \o Join(parts, <<",", " ">>) \o <<"]">>

\* the translation the service gives for item n of a prompt
TransText(n) == <<"t">> \o DecimalOf(n)

\* the line of the prompt for the item at index idx: f"{idx + 1}. {text}\n"
PromptLine(idx, text) == DecimalOf(idx + 1) \o <<".", " ">> \o text \o <<"\n">>

\* n translations numbered the way the prompt numbers its items
NumberedLines(n) == Join([m \in 1..n |-> PromptLine(m - 1, TransText(m))], <<>>)

\* what the service may answer to a prompt of n items: the message content
\* and the usage dict of the response
Answer(kind, n) ==
    CASE kind = "exact" ->
            [content |-> ArrayText([m \in 1..n |-> Quoted(TransText(m))]),
             usage |-> [prompt_tokens |-> 2, completion_tokens |-> 1, total_tokens |-> 3]]
      [] kind = "short" ->
            [content |-> ArrayText([m \in 1..(n - 1) |-> Quoted(TransText(m))]),
             usage |-> [prompt_tokens |-> 2, completion_tokens |-> 1]]
      [] kind = "long" ->
            [content |-> ArrayText([m \in 1..(n + 1) |-> Quoted(TransText(m))]),
             usage |-> [prompt_tokens |-> 2, completion_tokens |-> 1, total_tokens |-> 3]]
      [] kind = "blank" ->
            [content |-> ArrayText([m \in 1..n |->
                            Quoted(IF m = 1 THEN <<" ">> ELSE TransText(m))]),
             usage |-> [prompt_tokens |-> 2, completion_tokens |-> 1, total_tokens |-> 3]]
      [] kind = "lines" ->
            [content |-> NumberedLines(n),
             usage |-> [total_tokens |-> 3]]
      [] kind = "ints" ->
            [content |-> ArrayText([m \in 1..n |-> DecimalOf(m)]),
             usage |-> [prompt_tokens |-> 2, completion_tokens |-> 1, total_tokens |-> 3]]
      [] kind = "scalar" ->
            [content |-> Quoted(TransText(1)),
             usage |-> [completion_tokens |-> 1]]
      [] OTHER ->
            [content |-> <<>>, usage |-> [f \in {} |-> 0]]

OddKinds == {"short", "long", "blank", "lines", "ints", "scalar", "empty"}

(***************************************************************************)
(* The state of a run of main().                                           *)
(***************************************************************************)

VARIABLES
    pc,                    \* where main() stands
    file,                  \* the file at --file: [kind, doc]
    args,                  \* the parsed command line
    data,                  \* the document in memory
    source_lang,
    lang_index,            \* position of the for loop over target_languages
    keys_to_translate,
    source_texts,
    i,                     \* the offset of the current batch
    attempt,               \* translate_batch's retry counter
    translated_batch,
    usage,
    translations_for_lang,
    totals,                \* total_prompt_tokens, total_completion_tokens, total_tokens
    data0,                 \* history: the document as loaded
    slept,                 \* history: the seconds slept in the translate_batch call
    trace,                 \* history: the attempts and sleeps of the translate_batch call
    issued,                \* history: the batches given to translate_batch, in order
    stats,                 \* history: the number of the run, the run before it, and
                           \* the answers, merges and file writes of the run so far
    odd,                   \* the odd answers the service may still give
    fn_pc, fn_in, fn_out   \* a function applied on its own: position, input, result

vars ==
    <<pc, file, args, data, source_lang, lang_index, keys_to_translate, source_texts, i,
      attempt, translated_batch, usage, translations_for_lang, totals, data0, slept,
      trace, issued, stats, odd, fn_pc, fn_in, fn_out>>

runVars ==
    <<pc, file, args, data, source_lang, lang_index, keys_to_translate, source_texts, i,
      attempt, translated_batch, usage, translations_for_lang, totals, data0, slept,
      trace, issued, stats, odd>>

fnVars == <<fn_pc, fn_in, fn_out>>

\* a retry loop of four attempts
max_retries_four == 3 + 1

\* max_retries of translate_batch
max_retries == 3

\* the argument of time.sleep
backoff_seconds == 3

NoUsage == [f \in {} |-> 0]
NoTexts == [k \in {} |-> <<>>]
FnIdle ==
    [f |-> "none", raw |-> <<>>, key |-> <<>>, entry |-> EmptyEntry, items |-> <<>>,
     src_lang |-> "en", target_lang |-> "fr", doc |-> EmptyDoc, translations |-> <<>>]

\* the record of a first run that has done nothing yet
NoStats ==
    [run |-> 1, after |-> "none", answers |-> 0, merges |-> 0, writes |-> 0,
     regular |-> TRUE]

\* the variables of main() before it has loaded anything
Blank ==
    /\ data = EmptyDoc /\ data0 = EmptyDoc
    /\ source_lang = "" /\ lang_index = 1
    /\ keys_to_translate = <<>> /\ source_texts = NoTexts /\ i = 0
    /\ attempt = 0 /\ translated_batch = <<>> /\ usage = NoUsage
    /\ translations_for_lang = <<>>
    /\ totals = [prompt |-> 0, completion |-> 0, total |-> 0]
    /\ slept = 0 /\ trace = <<>> /\ issued = <<>>
    /\ stats = NoStats

Init ==
    /\ pc = "load"
    /\ \E c \in Configs :
        /\ args = [languages |-> c.languages, source_language |-> c.source_language]
        /\ \/ \E n \in Sizes : \E pos \in SpecialPos(n) : \E name \in TemplateNames :
                /\ pos = 0 => name = "excluded"
                /\ file = [kind |-> "doc", doc |-> DocOf(n, pos, name, c.hasSL)]
           \/ /\ c.languages = <<"fr">> /\ c.hasSL
              /\ file \in {[kind |-> "not_json", doc |-> EmptyDoc],
                           [kind |-> "not_dict", doc |-> EmptyDoc],
                           [kind |-> "no_strings", doc |-> EmptyDoc]}
    /\ odd = MaxOdd
    /\ Blank
    /\ fn_pc = "off" /\ fn_in = FnIdle /\ fn_out = <<>>

\* the target language of the current pass
target_lang == args.languages[lang_index]

total_keys == Len(keys_to_translate)

batch_keys == BatchKeys(keys_to_translate, i)

batch_texts == [n \in 1..Len(batch_keys) |-> source_texts[batch_keys[n]]]

\* the message content is what the prompt asks for: a JSON array of n strings
IsRegular(content, n) ==
    LET r == JsonLoads(Strip(content))
    IN  /\ r.ok /\ r.t = "list" /\ Len(r.elems) = n
        /\ \A m \in 1..Len(r.elems) : r.elems[m].t = "str"

\* a parse_xcstrings without the test for the "strings" field
ParseFails_unchecked(f) == f.kind = "not_json"

\* parse_xcstrings raises ValueError: the text is not JSON, or the value is
\* not a dict or has no "strings" (41-47)
ParseFails(f) == f.kind \in {"not_json", "not_dict", "no_strings"}

\* a loop that takes the source language like any other target
IsSourceLanguage_never(lang, src_lang) == FALSE

\* the test that skips a target language (201)
IsSourceLanguage(lang, src_lang) == lang = src_lang

\* parse_xcstrings succeeds; source_lang and the counters are set (186-199)
Load ==
    /\ pc = "load" /\ ~ParseFails(file)
    /\ data' = file.doc /\ data0' = file.doc
    /\ source_lang' = IF args.source_language # "" THEN args.source_language
                      ELSE IF file.doc.hasSourceLanguage THEN file.doc.sourceLanguage
                      ELSE "en"
    /\ pc' = "lang"
    /\ UNCHANGED <<slept, file, args, lang_index, keys_to_translate, source_texts, i, attempt,
                   translated_batch, usage, translations_for_lang, totals, trace, issued,
                   stats, odd, fnVars>>

\* parse_xcstrings raises ValueError (41-47)
LoadFails ==
    /\ pc = "load" /\ ParseFails(file)
    /\ pc' = "load_failed"
    /\ UNCHANGED <<slept, file, args, data, source_lang, lang_index, keys_to_translate,
                   source_texts, i, attempt, translated_batch, usage,
                   translations_for_lang, totals, data0, trace, issued, stats, odd, fnVars>>

\* the for loop has no language left: the totals are printed (244-245)
Finish ==
    /\ pc = "lang" /\ lang_index > Len(args.languages)
    /\ pc' = "done"
    /\ UNCHANGED <<slept, file, args, data, source_lang, lang_index, keys_to_translate,
                   source_texts, i, attempt, translated_batch, usage,
                   translations_for_lang, totals, data0, trace, issued, stats, odd, fnVars>>

\* the target language is the source language (201-203)
SkipSource ==
    /\ pc = "lang" /\ lang_index <= Len(args.languages)
    /\ IsSourceLanguage(target_lang, source_lang)
    /\ lang_index' = lang_index + 1
    /\ UNCHANGED <<slept, pc, file, args, data, source_lang, keys_to_translate, source_texts, i,
                   attempt, translated_batch, usage, translations_for_lang, totals, data0,
                   trace, issued, stats, odd, fnVars>>

\* the selection loop raises AttributeError on a value that is not a str (214)
SelectRaises ==
    /\ pc = "lang" /\ lang_index <= Len(args.languages)
    /\ ~IsSourceLanguage(target_lang, source_lang)
    /\ SelectionRaises(data.strings, target_lang)
    /\ pc' = "crashed"
    /\ UNCHANGED <<slept, file, args, data, source_lang, lang_index, keys_to_translate,
                   source_texts, i, attempt, translated_batch, usage,
                   translations_for_lang, totals, data0, trace, issued, stats, odd, fnVars>>

\* the selection (206-219), then nothing to translate (221-224)
SkipLanguage ==
    /\ pc = "lang" /\ lang_index <= Len(args.languages)
    /\ ~IsSourceLanguage(target_lang, source_lang)
    /\ ~SelectionRaises(data.strings, target_lang)
    /\ SelectKeys(data.strings, target_lang) = <<>>
    /\ keys_to_translate' = <<>>
    /\ source_texts' = NoTexts
    /\ lang_index' = lang_index + 1
    /\ UNCHANGED <<slept, pc, file, args, data, source_lang, i, attempt, translated_batch, usage,
                   translations_for_lang, totals, data0, trace, issued, stats, odd, fnVars>>

\* the selection (206-219), then the batch loop is entered (226-228)
StartLanguage ==
    /\ pc = "lang" /\ lang_index <= Len(args.languages)
    /\ ~IsSourceLanguage(target_lang, source_lang)
    /\ ~SelectionRaises(data.strings, target_lang)
    /\ SelectKeys(data.strings, target_lang) # <<>>
    /\ keys_to_translate' = SelectKeys(data.strings, target_lang)
    /\ source_texts' = SelectTexts(data.strings, target_lang, source_lang)
    /\ translations_for_lang' = <<>>
    /\ i' = 0
    /\ pc' = "batch"
    /\ UNCHANGED <<file, args, data, source_lang, lang_index, attempt, translated_batch,
                   usage, totals, data0, slept, trace, issued, stats, odd, fnVars>>

\* the batch is cut and translate_batch is entered (229-232, 74-88)
BeginBatch ==
    /\ pc = "batch"
    /\ attempt' = 0
    /\ slept' = 0
    /\ trace' = <<>>
    /\ issued' = Append(issued, [pass |-> lang_index, lang |-> target_lang,
                                  keys |-> batch_keys, kind |-> "", results |-> <<>>,
                                  usage |-> NoUsage, status |-> "sent"])
    /\ pc' = "call"
    /\ UNCHANGED <<file, args, data, source_lang, lang_index, keys_to_translate,
                   source_texts, i, translated_batch, usage, translations_for_lang, totals,
                   data0, stats, odd, fnVars>>

\* a retry loop that allows one attempt too many
AfterFailure_late(failed) == IF failed <= max_retries THEN "sleep" ELSE "aborted"

\* a retry loop that ends without raising when the attempts are used up
AfterFailure_swallow(failed) == IF failed < max_retries THEN "sleep" ELSE "returned"

\* where a failed attempt leads (101-108)
AfterFailure(failed) == IF failed < max_retries THEN "sleep" ELSE "aborted"

\* the service call raises (91-108): another attempt after a sleep, or the
\* exception leaves translate_batch and main
CallFails ==
    /\ pc = "call"
    /\ attempt' = attempt + 1
    /\ trace' = Append(trace, "fail")
    /\ pc' = AfterFailure(attempt + 1)
    /\ UNCHANGED <<slept, file, args, data, source_lang, lang_index, keys_to_translate,
                   source_texts, i, translated_batch, usage, translations_for_lang, totals,
                   data0, issued, stats, odd, fnVars>>

\* time.sleep(3) (104-106)
Sleep ==
    /\ pc = "sleep"
    /\ slept' = slept + backoff_seconds
    /\ trace' = Append(trace, "sleep")
    /\ pc' = "call"
    /\ UNCHANGED <<file, args, data, source_lang, lang_index, keys_to_translate,
                   source_texts, i, attempt, translated_batch, usage,
                   translations_for_lang, totals, data0, issued, stats, odd, fnVars>>

\* the service answers; translate_batch parses and returns (91-99, 110-137);
\* its local attempt counter ends with the call
CallReturns ==
    /\ pc = "call"
    /\ \E kind \in {"exact"} \cup (IF odd > 0 THEN OddKinds ELSE {}) :
        LET answer == Answer(kind, Len(batch_texts))
        IN  /\ translated_batch' = ParseTranslations(answer.content)
            /\ usage' = answer.usage
            /\ odd' = IF kind = "exact" THEN odd ELSE odd - 1
            /\ stats' = [stats EXCEPT !.answers = @ + 1,
                                      !.regular = @ /\ IsRegular(answer.content,
                                                                 Len(batch_texts))]
            /\ issued' = [issued EXCEPT ![Len(issued)].kind = kind,
                                        ![Len(issued)].results = translated_batch',
                                        ![Len(issued)].usage = answer.usage,
                                        ![Len(issued)].status = "answered"]
            /\ pc' = IF Caught(ParseError(Strip(answer.content)))
                     THEN "returned" ELSE "crashed"
    /\ trace' = Append(trace, "ok")
    /\ attempt' = 0
    /\ UNCHANGED <<slept, file, args, data, source_lang, lang_index, keys_to_translate,
                   source_texts, i, translations_for_lang, totals, data0, fnVars>>

\* the usage is added and the results are paired with the keys (233-237)
Accumulate ==
    /\ pc = "returned"
    /\ totals' = [prompt |-> totals.prompt + UsageGet(usage, "prompt_tokens"),
                  completion |-> totals.completion + UsageGet(usage, "completion_tokens"),
                  total |-> totals.total + UsageGet(usage, "total_tokens")]
    /\ translations_for_lang' = Zip(batch_keys, translated_batch)
    /\ trace' = <<>> /\ slept' = 0
    /\ pc' = "merge"
    /\ UNCHANGED <<file, args, data, source_lang, lang_index, keys_to_translate,
                   source_texts, i, attempt, translated_batch, usage, data0, issued, stats,
                   odd, fnVars>>

\* update_localizations_for_language is called (238)
Merge ==
    /\ pc = "merge"
    /\ data' = update_localizations_for_language(data, translations_for_lang, target_lang)
    /\ stats' = [stats EXCEPT !.merges = @ + 1]
    /\ pc' = "persist"
    /\ UNCHANGED <<slept, file, args, source_lang, lang_index, keys_to_translate, source_texts, i,
                   attempt, translated_batch, usage, translations_for_lang, totals, data0,
                   trace, issued, odd, fnVars>>

\* a persist_file that is given the document as it was loaded
persist_file_stale(doc) == [kind |-> "doc", doc |-> data0]

\* what persist_file leaves in the file (161-166)
persist_file(doc) == [kind |-> "doc", doc |-> doc]

\* persist_file, then the next batch or the next language (239-242)
Persist ==
    /\ pc = "persist"
    /\ file' = persist_file(data)
    /\ stats' = [stats EXCEPT !.writes = @ + 1]
    /\ issued' = [issued EXCEPT ![Len(issued)].status = "written"]
    /\ translations_for_lang' = <<>>
    /\ i' = i + BatchSize
    /\ IF i + BatchSize < total_keys
       THEN pc' = "batch" /\ UNCHANGED lang_index
       ELSE pc' = "lang" /\ lang_index' = lang_index + 1
    /\ UNCHANGED <<slept, args, data, source_lang, keys_to_translate, source_texts, attempt,
                   translated_batch, usage, totals, data0, trace, odd, fnVars>>

\* main() is started again with the same command line on the file the run
\* has left (168-181); the history starts anew and keeps how the run before
\* went: "clean" when each of its batches got the answer the prompt asks for
Rerun ==
    /\ pc = "done" /\ stats.run < MaxRuns
    /\ pc' = "load"
    /\ data' = EmptyDoc /\ data0' = EmptyDoc
    /\ source_lang' = "" /\ lang_index' = 1
    /\ keys_to_translate' = <<>> /\ source_texts' = NoTexts /\ i' = 0
    /\ attempt' = 0 /\ translated_batch' = <<>> /\ usage' = NoUsage
    /\ translations_for_lang' = <<>>
    /\ totals' = [prompt |-> 0, completion |-> 0, total |-> 0]
    /\ slept' = 0 /\ trace' = <<>> /\ issued' = <<>>
    /\ stats' = [NoStats EXCEPT !.run = stats.run + 1,
                                !.after = IF \A n \in 1..Len(issued) : issued[n].kind = "exact"
                                          THEN "clean" ELSE "other"]
    /\ UNCHANGED <<file, args, odd, fnVars>>

\* the steps main() takes by itself, the merge apart
LocalStep ==
    \/ Load \/ LoadFails \/ Finish \/ SkipSource \/ SelectRaises \/ SkipLanguage
    \/ StartLanguage \/ BeginBatch \/ Sleep \/ Accumulate \/ Persist

\* the service call ends: it raises or it answers
ServiceResponds == CallFails \/ CallReturns

\* a step of main()
RunStep == LocalStep \/ ServiceResponds \/ Merge

Next == RunStep \/ Rerun

Spec == Init /\ [][Next]_vars

\* main() is one sequential thread that runs on while it has a step to take,
\* and each service call fails or returns; nobody has to start it again.
\* The last conjunct is WF_vars(Merge) with ENABLED <<Merge>>_vars written
\* out: Merge is enabled exactly when pc = "merge", and it changes pc.
LiveSpec ==
    /\ Init /\ [][Next]_vars
    /\ WF_vars(LocalStep)
    /\ WF_vars(ServiceResponds)
    /\ ([]<>(pc # "merge") \/ []<><<Merge>>_vars)

(***************************************************************************)
(* The functions of the script applied on their own to bounded inputs.     *)
(***************************************************************************)

\* the characters of the message contents given to the parser
RawAlphabet == {"1", ".", ")", " ", "\n", "a", "[", "]"}

\* the example of a numbered answer: "1. Bonjour\n2) Salut\n"
NumberedExample ==
    <<"1", ".", " ", "B", "o", "n", "j", "o", "u", "r", "\n",
      "2", ")", " ", "S", "a", "l", "u", "t", "\n">>

RawInputs ==
    UNION {[1..n -> RawAlphabet] : n \in 0..MaxRaw}
    \cup {NumberedExample} \cup {NumberedLines(n) : n \in 1..BatchSize}

\* a localization with a stringUnit that has no "value"
NoValueUnit == [NoUnit EXCEPT !.present = TRUE, !.hasStringUnit = TRUE, !.state = "new"]

\* the entries given to get_source_text
SourceEntries ==
    {Template(name, 1) : name \in TemplateNames \cup {"plain"}}
    \cup {[PlainEntry(1) EXCEPT !.localizations["en"] = u] :
            u \in {BareUnit, NoValueUnit, Unit("new", Str(<<>>)),
                   Unit("new", Str(<<"\t", "\n">>)), Unit("new", Str(<<" ", "a", " ">>))}}

FnInputs ==
    {[FnIdle EXCEPT !.f = "parse", !.raw = raw] : raw \in RawInputs}
    \cup {[FnIdle EXCEPT !.f = "source", !.key = key, !.entry = entry, !.src_lang = src] :
            key \in {KeyOf(1), <<>>}, entry \in SourceEntries, src \in Langs}
    \cup {[FnIdle EXCEPT !.f = "select", !.items = DocOf(n, pos, name, TRUE).strings,
                         !.src_lang = src, !.target_lang = tgt] :
            n \in 1..2, pos \in 1..2, name \in TemplateNames, src \in {"en", "de"},
            tgt \in {"fr", "de"}}

\* the mappings given to update_localizations_for_language: the keys (by
\* number) in the order of the dict, each with a text of its own; key 3 is in
\* no document
KeyLists == {<<>>, <<1>>, <<2>>, <<2, 1>>, <<3>>, <<1, 3>>}

TranslationsOf(nums) ==
    [n \in 1..Len(nums) |-> [key |-> KeyOf(nums[n]), text |-> Str(TransText(nums[n]))]]

UpdateInputs ==
    {[FnIdle EXCEPT !.f = "update", !.doc = DocOf(2, pos, name, TRUE),
                    !.translations = TranslationsOf(nums), !.target_lang = tgt] :
        pos \in 1..2, name \in TemplateNames, nums \in KeyLists, tgt \in Langs}

FnInit ==
    /\ fn_pc = "ready" /\ fn_in \in FnInputs \cup UpdateInputs /\ fn_out = <<>>
    /\ pc = "off"
    /\ file = [kind |-> "doc", doc |-> EmptyDoc]
    /\ args = [languages |-> <<>>, source_language |-> ""]
    /\ odd = 0
    /\ Blank

\* the parsing of translate_batch (111, 118-137)
FnParse ==
    /\ fn_pc = "ready" /\ fn_in.f = "parse"
    /\ fn_out' = ParseTranslations(fn_in.raw)
    /\ fn_pc' = "done"
    /\ UNCHANGED <<fn_in, runVars>>

\* get_source_text (50-62)
FnSource ==
    /\ fn_pc = "ready" /\ fn_in.f = "source"
    /\ fn_out' = get_source_text(fn_in.key, fn_in.entry, fn_in.src_lang)
    /\ fn_pc' = "done"
    /\ UNCHANGED <<fn_in, runVars>>

\* the selection loop of main (206-219)
FnSelect ==
    /\ fn_pc = "ready" /\ fn_in.f = "select"
    /\ fn_out' = [keys |-> SelectKeys(fn_in.items, fn_in.target_lang),
                  texts |-> SelectTexts(fn_in.items, fn_in.target_lang, fn_in.src_lang)]
    /\ fn_pc' = "done"
    /\ UNCHANGED <<fn_in, runVars>>

\* update_localizations_for_language (139-159)
FnUpdate ==
    /\ fn_pc = "ready" /\ fn_in.f = "update"
    /\ fn_out' = update_localizations_for_language(fn_in.doc, fn_in.translations,
                                                    fn_in.target_lang)
    /\ fn_pc' = "done"
    /\ UNCHANGED <<fn_in, runVars>>

FnNext == FnParse \/ FnSource \/ FnSelect \/ FnUpdate

FnSpec == FnInit /\ [][FnNext]_vars

(***************************************************************************)
(* Properties.                                                             *)
(***************************************************************************)

\* the elements of a sequence
Range(seq) == {seq[n] : n \in 1..Len(seq)}

\* the "localizations" of an entry: whether it has the key, and its content
LocsOf(entry) == [has |-> entry.hasLocalizations, locs |-> entry.localizations]

\* the text has a character that is not whitespace
HasVisibleChar(text) == \E n \in 1..Len(text) : text[n] \notin PySpace

\* the entry holds a non-blank value for the language
HoldsValue(entry, lang) ==
    /\ entry.dict /\ entry.hasLocalizations
    /\ entry.localizations[lang].present /\ entry.localizations[lang].hasStringUnit
    /\ entry.localizations[lang].hasValue
    /\ entry.localizations[lang].value.t = "str"
    /\ HasVisibleChar(entry.localizations[lang].value.v)

\* the entries of the document as loaded whose shouldTranslate is false
ExcludedAtStart ==
    {n \in 1..Len(data0.strings) :
        data0.strings[n].entry.dict /\ data0.strings[n].entry.shouldTranslate = "false"}

\* C1: an entry whose shouldTranslate is false when the run starts has, in
\* memory and in the file, the localizations it started with, at every point
\* of the run, whatever the target languages and the answers of the service.
C1_ExcludedUnchanged ==
    \A n \in ExcludedAtStart :
        LET item == data0.strings[n]
        IN  /\ LocsOf(DictGet(data.strings, item.key)) = LocsOf(item.entry)
            /\ file.kind = "doc" =>
                  LocsOf(DictGet(file.doc.strings, item.key)) = LocsOf(item.entry)

\* a run over a document with an excluded entry has written the file after
\* an answer longer than its batch
C1_Witness ==
    /\ pc = "done" /\ ExcludedAtStart # {} /\ stats.writes > 0
    /\ \E b \in Range(issued) : Len(b.results) > Len(b.keys)

\* the entries and target languages with a non-blank value when the run starts
TranslatedAtStart ==
    {<<n, l>> \in (1..Len(data0.strings)) \X Range(args.languages) :
        HoldsValue(data0.strings[n].entry, l)}

\* C2: an entry that holds a non-blank value for a target language when the
\* run starts keeps that localization, and its key is in no batch given to
\* translate_batch for that language.
C2_TranslatedSkipped ==
    \A p \in TranslatedAtStart :
        LET item == data0.strings[p[1]]
        IN  /\ DictGet(data.strings, item.key).localizations[p[2]]
                  = item.entry.localizations[p[2]]
            /\ \A b \in Range(issued) : b.lang = p[2] => item.key \notin Range(b.keys)

\* a run has translated and written other entries of such a document
C2_Witness ==
    /\ pc = "done" /\ TranslatedAtStart # {} /\ stats.writes > 0
    /\ \E b \in Range(issued) : \E p \in TranslatedAtStart : b.lang = p[2]

\* the localization of a key for a language in a document
UnitAt(doc, key, lang) == DictGet(doc.strings, key).localizations[lang]

\* main() stands between two batches: nothing is answered and not yet written
BetweenBatches == pc \notin {"returned", "merge", "persist"}

\* batch j is the last written batch of its language to hold key
LastWriteOf(j, key) ==
    \A j2 \in (j + 1)..Len(issued) :
        ~(issued[j2].status = "written" /\ issued[j2].lang = issued[j].lang
          /\ key \in Range(issued[j2].keys))

\* element n of the array the service sent as an answer of that kind
SentElement(kind, n) == IF kind = "blank" /\ n = 1 THEN <<" ">> ELSE TransText(n)

\* C3: while every answer is a JSON array of as many strings as its batch
\* has keys, each key of a completed batch holds, in memory and in the file,
\* {state: "translated", value: t} for the target language, t being the
\* element of the answer at the key's place in the batch; this holds from the
\* completion of the batch on, so before the next service call and at the end.
C3_BatchMergedAndPersisted ==
    (stats.regular /\ BetweenBatches) =>
        \A j \in 1..Len(issued) : \A n \in 1..Len(issued[j].keys) :
            (issued[j].status = "written" /\ LastWriteOf(j, issued[j].keys[n])) =>
                LET want == Unit("translated", Str(SentElement(issued[j].kind, n)))
                IN  /\ UnitAt(data, issued[j].keys[n], issued[j].lang) = want
                    /\ UnitAt(file.doc, issued[j].keys[n], issued[j].lang) = want

\* a run of three batches and more has ended, every answer as the prompt asks
C3_Witness ==
    /\ pc = "done" /\ stats.regular /\ Len(issued) >= 3
    /\ \A j \in 1..Len(issued) : issued[j].status = "written"

RECURSIVE Retries(_)
\* f failed attempts, each followed by a sleep
Retries(f) == IF f = 0 THEN <<>> ELSE <<"fail", "sleep">> \o Retries(f - 1)

\* the failed attempts of the current translate_batch call
Failures == Cardinality({n \in 1..Len(trace) : trace[n] = "fail"})

\* C4: when the service fails f <= 2 times and then answers, translate_batch
\* has made f + 1 attempts and f sleeps of 3 seconds, each sleep after a
\* failed attempt and before the next attempt, and has returned a result;
\* it never sleeps more than twice (6 seconds) in one call.
C4_RetryThenSuccess ==
    /\ slept <= 6
    /\ (trace # <<>> /\ trace[Len(trace)] = "ok") => pc = "returned"
    /\ pc = "returned" =>
          \E f \in 0..2 : trace = Retries(f) \o <<"ok">> /\ slept = 3 * f

\* the service has failed twice and then answered
C4_Witness ==
    pc = "returned" /\ trace = <<"fail", "sleep", "fail", "sleep", "ok">> /\ slept = 6

\* the translations of every written batch are in the file
WrittenBatchesOnDisk ==
    \A j \in 1..Len(issued) :
        \A n \in 1..Min(Len(issued[j].keys), Len(issued[j].results)) :
            (issued[j].status = "written" /\ LastWriteOf(j, issued[j].keys[n])) =>
                UnitAt(file.doc, issued[j].keys[n], issued[j].lang)
                    = Unit("translated", issued[j].results[n])

\* the state of a run the third failure has ended
AbortedState ==
    /\ trace = <<"fail", "sleep", "fail", "sleep", "fail">>
    /\ stats.merges = stats.answers /\ stats.writes = stats.answers
    /\ stats.writes = 0 => file = [kind |-> "doc", doc |-> data0]
    /\ stats.writes > 0 => file = [kind |-> "doc", doc |-> data]
    /\ WrittenBatchesOnDisk

\* C5: when the service fails at every attempt of a batch, the run is
\* aborted by the third failure; from then on nothing is called, merged or
\* written, and the file is the document as written after the last completed
\* batch, with the translations of every earlier batch (the file as it was
\* when the run started, if no batch was completed).
C5_AbortAfterThreeFailures ==
    /\ [](Failures = max_retries => pc = "aborted")
    /\ [](pc = "aborted" => AbortedState)
    /\ [][pc = "aborted" => UNCHANGED vars]_vars

\* a run is aborted in its third batch or later
C5_Witness == pc = "aborted" /\ stats.writes >= 2 /\ file.doc # data0

\* the batches given to translate_batch in the pass over language number p
PassBatches(p) == SelectSeq(issued, LAMBDA b : b.pass = p)

RECURSIVE ConcatKeys(_)
\* the keys of the batches, one batch after the other
ConcatKeys(batches) ==
    IF batches = <<>> THEN <<>> ELSE Head(batches).keys \o ConcatKeys(Tail(batches))

\* main() is inside the batch loop of the current language
InPass == pc \in {"batch", "call", "sleep", "returned", "merge", "persist", "aborted"}

\* the pass over the previous language has just ended with its last batch
PassEnded ==
    /\ pc \in {"lang", "done"} /\ issued # <<>>
    /\ issued[Len(issued)].pass = lang_index - 1

\* the entry is pending for a language: not excluded, no non-blank value
PendingFor(entry, lang) ==
    ~(entry.dict /\ entry.shouldTranslate = "false") /\ ~HoldsValue(entry, lang)

\* the batches of the current pass (of the pass just ended) cut the pending
\* keys into consecutive runs of 10, the last one of 1 to 10
BatchesPartition ==
    LET batches == PassBatches(IF InPass THEN lang_index ELSE lang_index - 1)
        keys == ConcatKeys(batches)
    IN  (batches # <<>> /\ (InPass \/ PassEnded)) =>
            /\ \A j \in 1..(Len(batches) - 1) : Len(batches[j].keys) = 10
            /\ Len(batches[Len(batches)].keys) \in 1..10
            /\ Len(keys) <= total_keys
            /\ keys = SubSeq(keys_to_translate, 1, Len(keys))
            /\ PassEnded =>
                  /\ Len(batches) = (total_keys + 9) \div 10
                  /\ keys = keys_to_translate

\* C6: for a language with N >= 1 pending keys, ceil(N/10) batches are given
\* to translate_batch; each but the last has 10 keys, the last has 1 to 10;
\* their keys, in the order of the batches, are the pending keys in the key
\* order of the document: none left out, repeated or moved.
C6_BatchPartition ==
    /\ []BatchesPartition
    /\ [][(pc = "lang" /\ pc' = "batch") =>
            keys_to_translate' =
                SelectSeq(KeysOf(data.strings),
                          LAMBDA k : PendingFor(DictGet(data.strings, k), target_lang))]_vars

\* a pass over more than 20 pending keys has ended after three batches
C6_Witness ==
    /\ PassEnded /\ total_keys > 2 * BatchSize
    /\ Len(PassBatches(lang_index - 1)) = 3

\* a line as the recovery is described: trimmed, and without a leading digit
\* followed by "." or ")"
OrdinalStripped(line) ==
    LET t == Strip(line)
    IN  IF Len(t) >= 2 /\ t[1] \in Digits /\ t[2] \in {".", ")"}
        THEN Strip(SubSeq(t, 3, Len(t)))
        ELSE t

RECURSIVE OrdinalStrippedLines(_)
\* the lines so stripped that are not empty, in order
OrdinalStrippedLines(lines) ==
    IF lines = <<>> THEN <<>>
    ELSE (IF OrdinalStripped(Head(lines)) # <<>>
          THEN <<Str(OrdinalStripped(Head(lines)))>> ELSE <<>>)
         \o OrdinalStrippedLines(Tail(lines))

\* the parser has run on a message content that is no JSON array
FellBack == fn_pc = "done" /\ fn_in.f = "parse" /\ ~IsJsonList(Strip(fn_in.raw))

\* C7: in the line-based fallback the result is, in line order, every line
\* trimmed and with its leading ordinal (a digit followed by "." or ")")
\* removed, the lines that are then empty left out.
C7_FallbackStripsOrdinals ==
    FellBack => fn_out = OrdinalStrippedLines(SplitLines(Strip(fn_in.raw)))

\* the example of C7: "1. Bonjour\n2) Salut\n" gives ["Bonjour", "Salut"]
C7_ExampleHolds ==
    (FellBack /\ fn_in.raw = NumberedExample) =>
        fn_out = <<Str(<<"B", "o", "n", "j", "o", "u", "r">>), Str(<<"S", "a", "l", "u", "t">>)>>

\* the source text an entry is to have: its value for the source language
\* when it holds a non-blank one, its key otherwise
SourceOrKey(key, entry, src_lang) ==
    IF HoldsValue(entry, src_lang) THEN entry.localizations[src_lang].value.v ELSE key

\* C8: get_source_text returns the key when the entry has no localization for
\* the source language or its value is empty or only whitespace, and the
\* stored value otherwise; every selected key has a source text.
C8_SourceTextOrKey ==
    /\ (fn_pc = "done" /\ fn_in.f = "source") =>
          fn_out = SourceOrKey(fn_in.key, fn_in.entry, fn_in.src_lang)
    /\ (fn_pc = "done" /\ fn_in.f = "select") =>
          /\ DOMAIN fn_out.texts = Range(fn_out.keys)
          /\ \A k \in Range(fn_out.keys) :
                fn_out.texts[k] = SourceOrKey(k, DictGet(fn_in.items, k), fn_in.src_lang)

\* get_source_text has returned the key of an entry whose source value is
\* only whitespace
C8_Witness ==
    /\ fn_pc = "done" /\ fn_in.f = "source" /\ fn_out = fn_in.key
    /\ fn_in.entry.localizations[fn_in.src_lang].hasValue
    /\ fn_in.entry.localizations[fn_in.src_lang].value.v # <<>>

\* the file holds the document in memory, whole
FileIsData == file = [kind |-> "doc", doc |-> data]

\* C9: the file is written after every merge, before anything else happens:
\* between batches the file writes, the merges and the answered batches are
\* as many; each write is of the whole document in memory; and when a service
\* call starts or the run has ended after a completed batch, the file holds
\* the document in memory.
C9_PersistAfterEveryMerge ==
    /\ [](BetweenBatches =>
            stats.writes = stats.merges /\ stats.writes = stats.answers)
    /\ []((pc \in {"call", "done", "aborted", "crashed"} /\ stats.answers > 0) =>
            FileIsData)
    /\ [][(pc # "done" /\ stats.merges' # stats.merges) => pc' = "persist"]_vars
    /\ [][pc = "persist" =>
            /\ stats.writes' = stats.writes + 1 /\ stats.merges' = stats.merges
            /\ data' = data /\ FileIsData']_vars

\* a second service call starts with the first batch on disk
C9_Witness ==
    pc = "call" /\ stats.writes >= 1 /\ FileIsData /\ data # data0

\* the place of a key in a sequence of keys (0 when it is not there)
PlaceIn(keys, key) ==
    IF key \in Range(keys) THEN CHOOSE n \in 1..Len(keys) : keys[n] = key ELSE 0

\* the merge of m results into the document for a batch of n keys
MergeTruncates ==
    LET m == Len(translated_batch)
        n == Len(batch_keys)
    IN  /\ KeysOf(data'.strings) = KeysOf(data.strings)
        /\ \A x \in 1..Len(data.strings) :
              LET key == data.strings[x].key
                  place == PlaceIn(batch_keys, key)
              IN  IF place \in 1..Min(m, n)
                  THEN UnitAt(data', key, target_lang)
                          = Unit("translated", translated_batch[place])
                  ELSE data'.strings[x] = data.strings[x]
        /\ \A place \in (m + 1)..n :
              PendingFor(DictGet(data'.strings, batch_keys[place]), target_lang)
        /\ pc' = "persist"

\* C10: of a batch of n keys answered with m translations, the first
\* min(m, n) keys get a translation, key number i the result number i; the
\* keys after them keep their entry and stay pending, the results after them
\* are written nowhere; the run goes on to the file write and to the next
\* batch or language, with no error.
C10_ZipTruncation ==
    /\ [][pc = "merge" => MergeTruncates]_vars
    /\ [][pc = "persist" =>
            pc' = IF i + BatchSize < total_keys THEN "batch" ELSE "lang"]_vars

\* the run stands at the next batch after an answer shorter than its batch
C10_Witness ==
    /\ pc = "batch" /\ issued # <<>>
    /\ issued[Len(issued)].status = "written"
    /\ Len(issued[Len(issued)].results) \in 1..(Len(issued[Len(issued)].keys) - 1)

\* the parser has run on a message content
Parsed == fn_pc = "done" /\ fn_in.f = "parse"

\* the value is a JSON array whose elements are all strings
IsArrayOfStrings(raw) ==
    /\ JsonLoads(raw).ok /\ JsonLoads(raw).t = "list"
    /\ \A n \in 1..Len(JsonLoads(raw).elems) : JsonLoads(raw).elems[n].t = "str"

\* C11: translate_batch returns a list whose elements are all strings: the
\* answer is taken as JSON only when it is a JSON array of strings, and every
\* other answer (an array holding a number, null or an array among them) goes
\* through the line-based fallback.
C11_OnlyStringsReturned ==
    Parsed =>
        /\ \A n \in 1..Len(fn_out) : fn_out[n].t = "str"
        /\ ~IsArrayOfStrings(Strip(fn_in.raw)) =>
              fn_out = FallbackLines(SplitLines(Strip(fn_in.raw)))

\* the answers that are not what the prompt asks for in their format: valid
\* JSON that is not an array, text that is not JSON, no text
FormatErrorKinds == {"scalar", "lines", "empty"}

\* what translate_batch has returned for an answer of such a kind to n texts
ReturnedList(kind, n, results) ==
    /\ DOMAIN results = 1..Len(results)
    /\ \A m \in 1..Len(results) : results[m].t = "str"
    /\ kind = "scalar" => results = <<Str(Quoted(TransText(1)))>>
    /\ kind = "lines" => Len(results) = n
    /\ kind = "empty" => results = <<>>

\* the run has gone on after the answer to batch j: merged and written when
\* another batch was issued after it, and on its way to that otherwise; once
\* the batch is written main() is back at the loops, where it may end or meet
\* a value of an earlier answer that is not a string
WentOn(j) ==
    /\ issued[j].status \in {"answered", "written"}
    /\ j < Len(issued) => issued[j].status = "written"
    /\ (j = Len(issued) /\ issued[j].status = "answered") =>
          pc \in {"returned", "merge", "persist"}
    /\ (j = Len(issued) /\ issued[j].status = "written") =>
          pc \in {"batch", "lang", "done", "crashed"}

\* C12: an answer whose text is not a JSON array (valid JSON of another type,
\* invalid JSON, empty text) makes translate_batch return a list, possibly
\* empty, and the usage record; nothing is raised and no attempt is made
\* again, and the run goes on to the merge, the file write and the next batch.
C12_FormatErrorNeverEscalates ==
    /\ [](\A j \in 1..Len(issued) :
            issued[j].kind \in FormatErrorKinds =>
                /\ ReturnedList(issued[j].kind, Len(issued[j].keys), issued[j].results)
                /\ issued[j].usage = Answer(issued[j].kind, Len(issued[j].keys)).usage
                /\ WentOn(j))
    /\ [](pc \in {"call", "sleep"} => issued[Len(issued)].status = "sent")
    /\ [][(pc = "call" /\ issued'[Len(issued)].kind \in FormatErrorKinds) =>
            /\ pc' = "returned" /\ trace' = Append(trace, "ok")
            /\ translated_batch' = issued'[Len(issued)].results
            /\ usage' = issued'[Len(issued)].usage]_vars
    /\ [][pc = "returned" => pc' = "merge"]_vars
    /\ [][(pc = "merge" /\ issued[Len(issued)].kind \in FormatErrorKinds) =>
            pc' = "persist"]_vars

\* the next batch is reached after an answer of no text, which was merged and
\* written as an empty list
C12_Witness ==
    /\ pc = "batch" /\ issued # <<>>
    /\ issued[Len(issued)].kind = "empty" /\ issued[Len(issued)].status = "written"
    /\ issued[Len(issued)].results = <<>> /\ stats.writes = Len(issued)

\* update_localizations_for_language has run on a document and a mapping
Updated == fn_pc = "done" /\ fn_in.f = "update"

\* the keys of a mapping
MappedKeys(translations) == {translations[n].key : n \in 1..Len(translations)}

\* the entry after the update of its localization for lang: what it was, with
\* that one localization set (an entry that was no dict has nothing to keep)
WithUnit(entry, lang, unit) ==
    [dict |-> TRUE,
     shouldTranslate |-> IF entry.dict THEN entry.shouldTranslate ELSE "absent",
     hasLocalizations |-> TRUE,
     localizations |-> [l \in Langs |-> IF l = lang THEN unit
                                        ELSE IF entry.dict THEN entry.localizations[l]
                                        ELSE NoUnit],
     extractionState |-> IF entry.dict THEN entry.extractionState ELSE ""]

\* C13: update_localizations_for_language(data, translations, L) sets
\* localizations[L] of each key of the mapping to {stringUnit: {state:
\* "translated", value: text}} whatever was there; every entry whose key is not
\* in the mapping, the other languages and the other fields of the updated
\* entries, the place of every entry and the other fields of the document are
\* as before.
C13_UpdateFrame ==
    Updated =>
        LET before == fn_in.doc
            after == fn_out
            L == fn_in.target_lang
            tr == fn_in.translations
            newKeys == SelectSeq([n \in 1..Len(tr) |-> tr[n].key],
                                 LAMBDA k : k \notin Range(KeysOf(before.strings)))
        IN  /\ \A n \in 1..Len(tr) :
                  UnitAt(after, tr[n].key, L) = Unit("translated", tr[n].text)
            /\ KeysOf(after.strings) = KeysOf(before.strings) \o newKeys
            /\ \A x \in 1..Len(before.strings) :
                  IF before.strings[x].key \in MappedKeys(tr)
                  THEN after.strings[x].entry =
                          WithUnit(before.strings[x].entry, L,
                                   UnitAt(after, before.strings[x].key, L))
                  ELSE after.strings[x] = before.strings[x]
            /\ after.sourceLanguage = before.sourceLanguage
            /\ after.hasSourceLanguage = before.hasSourceLanguage

\* the update has replaced a value the entry held for the language, next to a
\* localization for another language and to an entry that is not in the mapping
C13_Witness ==
    /\ Updated /\ fn_in.target_lang = "fr" /\ Len(fn_in.translations) = 1
    /\ \E x \in 1..Len(fn_in.doc.strings) :
          /\ fn_in.doc.strings[x].key = fn_in.translations[1].key
          /\ HoldsValue(fn_in.doc.strings[x].entry, "fr")
          /\ HoldsValue(fn_in.doc.strings[x].entry, "en")
          /\ fn_out.strings[x].entry.localizations["fr"].state = "translated"
          /\ fn_out.strings[x].entry.localizations["fr"].value
                # fn_in.doc.strings[x].entry.localizations["fr"].value

\* the for loop stands at a target language that is the source language
AtSourceLanguage ==
    pc = "lang" /\ lang_index <= Len(args.languages) /\ target_lang = source_lang

\* main() has loaded the document
Loaded == pc \notin {"load", "load_failed", "off"}

\* C14: a target language equal to the source language is skipped: no batch
\* is given to translate_batch for it, nothing is merged or written at its
\* turn, and the localization of every entry for the source language is, in
\* memory and in the file, what it was when the run started.
C14_SourceLanguageSkipped ==
    /\ [](Loaded =>
            /\ \A b \in Range(issued) : b.lang # source_lang
            /\ \A x \in 1..Len(data0.strings) :
                  LET key == data0.strings[x].key
                  IN  /\ UnitAt(data, key, source_lang) = UnitAt(data0, key, source_lang)
                      /\ UnitAt(file.doc, key, source_lang)
                            = UnitAt(data0, key, source_lang))
    /\ [][AtSourceLanguage =>
            /\ pc' = "lang" /\ lang_index' = lang_index + 1
            /\ UNCHANGED <<data, file, issued, stats, totals>>]_vars

\* a run whose targets include the source language has ended after writing
\* translations for another language
C14_Witness ==
    /\ pc = "done" /\ source_lang \in Range(args.languages) /\ stats.writes > 0
    /\ \E x \in 1..Len(data0.strings) : HoldsValue(data0.strings[x].entry, source_lang)

\* the file does not hold a document: its text is not JSON, or the value is
\* no dict, or it has no "strings"
BadFile == file.kind # "doc"

\* C15: when the file cannot be parsed or the document has no "strings", the
\* load fails and the run ends there: it is not tried again, translate_batch
\* is never called and the file is never written.
C15_FormatErrorIsFatal ==
    /\ [](BadFile => pc \in {"load", "load_failed"})
    /\ [](pc = "load_failed" =>
            /\ BadFile /\ issued = <<>> /\ trace = <<>>
            /\ stats.answers = 0 /\ stats.merges = 0 /\ stats.writes = 0)
    /\ [][(pc = "load" /\ BadFile) => (pc' = "load_failed" /\ file' = file)]_vars
    /\ [][pc = "load_failed" => UNCHANGED vars]_vars

\* the load has failed on a document without "strings"
C15_Witness == pc = "load_failed" /\ file.kind = "no_strings" /\ args.languages # <<>>

\* a field of a usage record, 0 when the record does not have it
FieldOr0(u, field) == IF field \in DOMAIN u THEN u[field] ELSE 0

RECURSIVE SumUsage(_, _)
\* the sum of a field over the usage records of the batches
SumUsage(batches, field) ==
    IF batches = <<>> THEN 0
    ELSE FieldOr0(Head(batches).usage, field) + SumUsage(Tail(batches), field)

\* the batches whose call has succeeded and whose usage main() has added:
\* every answered batch, the one just returned (line 232) apart until the
\* additions of lines 233-235 are done
AddedBatches ==
    SelectSeq(issued, LAMBDA b : b.status = "written"
                                  \/ (b.status = "answered" /\ pc # "returned"))

\* the three counters are the sums over the batches
TotalsAreSumsOver(batches) ==
    /\ totals.prompt = SumUsage(batches, "prompt_tokens")
    /\ totals.completion = SumUsage(batches, "completion_tokens")
    /\ totals.total = SumUsage(batches, "total_tokens")

\* C16: each usage counter is the sum, over the batch calls that have
\* succeeded so far, of that field of the call's usage record, a missing field
\* counting 0; a failed attempt adds nothing, the counters start at 0 and
\* never decrease, and at the end they are the sums over all completed batches.
C16_UsageTotals ==
    /\ [](Loaded => TotalsAreSumsOver(AddedBatches))
    /\ [](issued = <<>> => totals = [prompt |-> 0, completion |-> 0, total |-> 0])
    /\ []((pc = "done" /\ \A b \in Range(issued) : b.status = "written") =>
            TotalsAreSumsOver(issued))
    /\ [][pc # "done" =>
            /\ totals'.prompt >= totals.prompt
            /\ totals'.completion >= totals.completion
            /\ totals'.total >= totals.total]_vars
    /\ [][(pc = "call" /\ pc' \in {"sleep", "aborted"}) => totals' = totals]_vars
    /\ [][pc = "sleep" => totals' = totals]_vars

\* a run of two batches and more has ended, one answer of them with a usage
\* record that has no total_tokens
C16_Witness ==
    /\ pc = "done" /\ Len(issued) >= 2
    /\ \E b \in Range(issued) : "total_tokens" \notin DOMAIN b.usage /\ b.usage # NoUsage
    /\ totals.prompt > totals.total /\ totals.total > 0

\* the run has ended: completed, or aborted by an exception that left main()
\* (the third failure of a call, a document that does not load, a value that
\* is not a string met by the selection)
RunEnded == pc \in {"done", "aborted", "load_failed", "crashed"}

\* the service invocations of the current translate_batch call
Invocations == Cardinality({n \in 1..Len(trace) : trace[n] \in {"fail", "ok"}})

\* the batches of the current pass, or of the pass that has just ended
BatchesOfPass == PassBatches(IF InPass THEN lang_index ELSE lang_index - 1)

\* C17: every run ends, completed or aborted, whatever the service does at
\* each call (fail or answer); translate_batch invokes the service at most 3
\* times for a batch, and a language with N pending keys gets at most
\* ceil(N/10) batches.
C17_RunTerminates ==
    /\ (pc = "load") ~> RunEnded
    /\ [](Invocations <= 3)
    /\ []((InPass \/ PassEnded) => Len(BatchesOfPass) <= (total_keys + 9) \div 10)
    /\ [][(RunEnded /\ pc # "done") => UNCHANGED vars]_vars

\* a run is aborted by the third invocation for the last of three batches
C17_Witness ==
    /\ pc = "aborted" /\ Invocations = 3 /\ total_keys = MaxKeys
    /\ Len(BatchesOfPass) = (total_keys + 9) \div 10

\* no entry of the document as loaded is pending for any requested target
\* language other than the source language
NothingPending ==
    \A l \in Range(args.languages) :
        l # source_lang =>
            \A x \in 1..Len(data0.strings) : ~PendingFor(data0.strings[x].entry, l)

\* the run has called nothing and written nothing, and the document and the
\* file are what was loaded
NoOp ==
    /\ issued = <<>> /\ trace = <<>>
    /\ stats.answers = 0 /\ stats.merges = 0 /\ stats.writes = 0
    /\ data = data0 /\ file = [kind |-> "doc", doc |-> data0]
    /\ pc \in {"lang", "done"}

\* C18: a run for which no entry is pending for any requested target
\* language (each entry excluded by shouldTranslate false or holding a
\* non-blank value) calls the service zero times, writes the file zero times
\* and leaves document and file unchanged; the run that follows a run in which
\* every batch got as many non-blank strings as it has keys is such a run.
C18_NothingPendingIsNoOp ==
    /\ (Loaded /\ NothingPending) => NoOp
    /\ (Loaded /\ stats.after = "clean") => NothingPending

\* a second run has ended as a no-op on a file in which the first run wrote
\* the translations of three batches
C18_Witness ==
    /\ pc = "done" /\ stats.run = 2 /\ stats.after = "clean" /\ NoOp
    /\ Len(data0.strings) = MaxKeys
    /\ \A x \in 1..Len(data0.strings) :
          data0.strings[x].entry.localizations["fr"].state = "translated"

\* the documents have the same keys in the same order
SameKeys(doc1, doc2) ==
    /\ Len(doc1.strings) = Len(doc2.strings)
    /\ \A x \in 1..Len(doc1.strings) : doc1.strings[x].key = doc2.strings[x].key

\* the (entry, language) localizations that differ between two documents of
\* the same keys
Differing(doc1, doc2) ==
    {<<x, l>> \in (1..Len(doc1.strings)) \X Langs :
        doc1.strings[x].entry.localizations[l] # doc2.strings[x].entry.localizations[l]}

\* the localizations of a document that are not those loaded
WrittenIn(doc) == IF doc = data0 THEN {} ELSE Differing(doc, data0)

\* the language is a requested target other than the source language, and the
\* key was in the selection of a pass over it
WasSelected(key, lang) ==
    /\ lang \in Range(args.languages) /\ lang # source_lang
    /\ \E b \in Range(issued) : b.lang = lang /\ key \in Range(b.keys)

\* the selection of a pass takes pending keys only, and stays as it is until
\* the pass has ended
SelectionIsPending ==
    /\ (pc = "lang" /\ pc' = "batch") =>
          \A k \in Range(keys_to_translate') :
              PendingFor(DictGet(data.strings, k), args.languages[lang_index])
    /\ (pc \notin {"lang", "done"}) => keys_to_translate' = keys_to_translate

\* C19: a run adds, removes and moves no entry: the keys of "strings" are, in
\* memory and in the file, the keys loaded and in their order; and the run
\* writes a (key, language) localization only when the language is a
\* requested target other than the source language and the key was pending
\* for it when the pass over that language began.
C19_KeysAndWritesBounded ==
    /\ [](Loaded =>
            /\ SameKeys(data, data0) /\ SameKeys(file.doc, data0)
            /\ \A p \in WrittenIn(data) \cup (IF file.doc = data THEN {}
                                                ELSE WrittenIn(file.doc)) :
                  WasSelected(data0.strings[p[1]].key, p[2]))
    /\ [][SelectionIsPending]_vars
    /\ [][(Loaded /\ pc # "done" /\ data' # data) =>
            /\ pc = "merge" /\ SameKeys(data', data)
            /\ \A p \in Differing(data', data) :
                  p[2] = target_lang /\ data.strings[p[1]].key \in Range(batch_keys)]_vars

\* a run over two target languages has ended with translations written for a
\* document of more than one batch
C19_Witness ==
    /\ pc = "done" /\ Len(data0.strings) > BatchSize
    /\ Cardinality({b.lang : b \in Range(issued)}) = 2
    /\ WrittenIn(file.doc) # {}

\* the parser has run on n lines numbered as the prompt numbers its items
ParsedNumbered(n) == Parsed /\ fn_in.raw = NumberedLines(n)

\* C20: for every batch size n from 1 to 10, an answer of n lines numbered
\* as the prompt numbers its items (line i is "i. " and the i-th translation)
\* gives exactly the n translations without their ordinals, the tenth line
\* with its two-digit ordinal "10." included.
C20_NumberedAnswerRecovered ==
    \A n \in 1..BatchSize :
        ParsedNumbered(n) => fn_out = [m \in 1..n |-> Str(TransText(m))]

\* the lines numbered 1 to 9 are recovered; line 10 comes back whole
C20_SingleDigitsOnly ==
    \A n \in 1..BatchSize :
        ParsedNumbered(n) =>
            /\ Len(fn_out) = n
            /\ \A m \in 1..n :
                  fn_out[m] = IF m < 10 THEN Str(TransText(m))
                              ELSE Str(Strip(PromptLine(m - 1, TransText(m))))

====
